---- MODULE Spec2Model ----
(***************************************************************************)
(* Model of fiber/adapterALB.go: FiberLambdaALB.Proxy, ProxyWithContext,   *)
(* proxyInternal and adaptor.                                              *)
(*                                                                         *)
(* Every invocation (a "call") walks through the statements of            *)
(* proxyInternal and adaptor, one action per statement group.  The pooled  *)
(* fasthttp requests are the only objects shared between calls.  The core  *)
(* package (event conversion, response capture) is not part of the source *)
(* file and is modelled from the written specification.                   *)
(***************************************************************************)
EXTENDS Integers, Sequences, FiniteSets, TLC

VARIABLES runtime, pc, inp, loc, out, log, pool, created, objs, memo

vars == <<runtime, pc, inp, loc, out, log, pool, created, objs, memo>>

(***************************************************************************)
(* Bounds                                                                  *)
(***************************************************************************)
\* Invocations the hosting runtime runs at the same time (concurrent runs).
MaxCalls == 2
\* Values an event supplies for one header name.
MaxVals == 2

Calls == 1 .. MaxCalls
ObjIds == 1 .. MaxCalls

(***************************************************************************)
(* Program constants                                                       *)
(***************************************************************************)
StatusInternalServerError == 500
StatusGatewayTimeout == 504
defaultStatusCode == -1
StatusMessage500 == "Internal Server Error"

\* The headers the switch of adaptor sets instead of adding.
OverrideSet == {"Host", "Content-Type", "User-Agent", "Content-Length", "Connection"}
OtherNames == {"Accept", "X-Tag"}
HeaderNames == OverrideSet \cup OtherNames
\* Header names of the captured response.
RespNames == {"Content-Type", "Content-Length", "X-Tag", "X-Method", "X-Content-Type-Options"}

NoHeader == [k \in HeaderNames |-> <<>>]
NoRespHeader == [k \in RespNames |-> <<>>]

(***************************************************************************)
(* Sequences                                                               *)
(***************************************************************************)
RECURSIVE SeqsUpTo(_, _)
SeqsUpTo(S, n) ==
    IF n = 0 THEN {<<>>}
    ELSE LET shorter == SeqsUpTo(S, n - 1)
         IN  shorter \cup {Append(s, x) : s \in shorter, x \in S}

Count(s, x) == Cardinality({i \in DOMAIN s : s[i] = x})
Has(s, x) == \E i \in DOMAIN s : s[i] = x
First(s, x) == CHOOSE i \in DOMAIN s : s[i] = x /\ \A j \in 1 .. (i - 1) : s[j] # x

(***************************************************************************)
(* fasthttp.Request and its header                                         *)
(***************************************************************************)
EmptyRequest == [method |-> "", requestURI |-> "", body |-> <<>>, header |-> <<>>]

\* RequestHeader.Set: one value for the key, replacing what was there.
HeaderSet(h, key, v) == SelectSeq(h, LAMBDA p : p[1] # key) \o <<<<key, v>>>>
\* RequestHeader.Add: one more value for the key.
HeaderAdd(h, key, v) == Append(h, <<key, v>>)

\* The values the header holds for the key, in order.
RECURSIVE ValuesOf(_, _)
ValuesOf(h, key) ==
    IF h = <<>> THEN <<>>
    ELSE IF Head(h)[1] = key THEN <<Head(h)[2]>> \o ValuesOf(Tail(h), key)
    ELSE ValuesOf(Tail(h), key)

Last(s) == s[Len(s)]

(***************************************************************************)
(* Inbound events and the Generic Request (core package)                   *)
(***************************************************************************)
Vals == {"v1", "v2"}
Hello == <<"h", "e", "l", "l", "o">>
Hi == <<"h", "i">>
GoodAddr == "10.0.0.1:443"
\* Addresses net.ResolveTCPAddr rejects: no port, and no address at all.
BadAddrs == {"10.0.0.1", "not an address"}

BaseEvent ==
    [Method |-> "POST", Path |-> "/echo", Host |-> "alb.example",
     Headers |-> NoHeader, Body |-> Hello, RemoteAddr |-> GoodAddr,
     Malformed |-> FALSE, BodyFails |-> FALSE]

\* Events that vary the headers: one name of the override set and one other
\* name, each with up to MaxVals values.
HeaderEvents ==
    {[BaseEvent EXCEPT !.Headers = [NoHeader EXCEPT ![k1] = v1, ![k2] = v2]] :
        k1 \in OverrideSet, v1 \in SeqsUpTo(Vals, MaxVals),
        k2 \in OtherNames, v2 \in SeqsUpTo(Vals, MaxVals)}

\* Events that vary everything else.
FieldEvents ==
    {[BaseEvent EXCEPT !.Method = m, !.Path = p, !.Body = b, !.RemoteAddr = a,
                       !.BodyFails = f] :
        m \in {"GET", "POST"}, p \in {"/echo", "/empty", "/missing"},
        b \in {<<>>, Hi, Hello}, a \in {GoodAddr} \cup BadAddrs, f \in BOOLEAN}
    \cup {[BaseEvent EXCEPT !.Malformed = TRUE]}

TaggedEvent == [BaseEvent EXCEPT !.Headers = [NoHeader EXCEPT !["X-Tag"] = <<"v1", "v2">>]]
ContextEvents ==
    {BaseEvent, TaggedEvent,
     [BaseEvent EXCEPT !.Malformed = TRUE],
     [BaseEvent EXCEPT !.RemoteAddr = "10.0.0.1"],
     [BaseEvent EXCEPT !.Path = "/missing"]}

Input(api, done, ev) == [api |-> api, ctxDone |-> done, event |-> ev]
NoInput == Input("", FALSE, BaseEvent)

\* What one invocation at a time is given.
SingleInputs ==
    {Input("Proxy", FALSE, ev) : ev \in HeaderEvents \cup FieldEvents}
    \cup {Input("ProxyWithContext", d, ev) : d \in BOOLEAN, ev \in ContextEvents}

\* What concurrent invocations are given.
ConcurrentInputs ==
    {Input("Proxy", FALSE, BaseEvent),
     Input("ProxyWithContext", FALSE, [TaggedEvent EXCEPT !.Body = Hi])}

Inputs(rt) == IF rt = "single" THEN SingleInputs ELSE ConcurrentInputs
ActiveCalls(rt) == IF rt = "single" THEN {1} ELSE Calls

ZeroHTTPRequest ==
    [Method |-> "", RequestURI |-> "", Host |-> "", Header |-> NoHeader,
     RemoteAddr |-> "", Body |-> <<>>, BodyFails |-> FALSE]

\* core.RequestAccessorALB.ProxyEventToHTTPRequest: field mapping, or an error
\* for malformed data.
ProxyEventToHTTPRequest(ev) ==
    IF ev.Malformed
    THEN [req |-> ZeroHTTPRequest, err |-> "malformed event"]
    ELSE [req |-> [Method |-> ev.Method, RequestURI |-> ev.Path, Host |-> ev.Host,
                   Header |-> ev.Headers, RemoteAddr |-> ev.RemoteAddr,
                   Body |-> ev.Body, BodyFails |-> ev.BodyFails],
          err |-> ""]

\* core.RequestAccessorALB.EventToRequestWithContext: the same, but request
\* construction fails when the context is cancelled or past its deadline.
EventToRequestWithContext(done, ev) ==
    IF done
    THEN [req |-> ZeroHTTPRequest, err |-> "context done"]
    ELSE ProxyEventToHTTPRequest(ev)

(***************************************************************************)
(* Outbound events and the response capture (core package, net/http)       *)
(***************************************************************************)
OutboundEvent(status, headers, body) ==
    [StatusCode |-> status, Headers |-> headers, Body |-> body]

ZeroEvent == OutboundEvent(0, NoRespHeader, <<>>)

\* core.GatewayTimeoutALB
GatewayTimeoutALB == OutboundEvent(StatusGatewayTimeout, NoRespHeader, <<>>)

ZeroWriter ==
    [made |-> FALSE, headers |-> NoRespHeader, status |-> defaultStatusCode,
     body |-> <<>>]

\* core.NewProxyResponseWriterALB
NewProxyResponseWriterALB == [ZeroWriter EXCEPT !.made = TRUE]

\* w.Header().Add(k, v)
WriterHeaderAdd(w, k, v) == [w EXCEPT !.headers[k] = Append(@, v)]
\* w.Header().Set(k, v)
WriterHeaderSet(w, k, v) == [w EXCEPT !.headers[k] = <<v>>]
\* w.Header().Del(k)
WriterHeaderDel(w, k) == [w EXCEPT !.headers[k] = <<>>]
\* w.WriteHeader(code)
WriteHeader(w, code) == [w EXCEPT !.status = code]
\* w.Write(b): a write before any WriteHeader implies status 200.
Write(w, b) ==
    [w EXCEPT !.status = IF @ = defaultStatusCode THEN 200 ELSE @,
              !.body = @ \o b]

\* http.Error(w, msg, code)
HttpError(w, msg, code) ==
    LET w1 == WriterHeaderDel(w, "Content-Length")
        w2 == WriterHeaderSet(w1, "Content-Type", "text/plain; charset=utf-8")
        w3 == WriterHeaderSet(w2, "X-Content-Type-Options", "nosniff")
        w4 == WriteHeader(w3, code)
    IN  Write(w4, <<msg, "\n">>)

\* respWriter.GetProxyResponse(): the structured event, or an error when the
\* captured data break the capture's invariant (no status code was written).
GetProxyResponse(w) ==
    IF w.status = defaultStatusCode
    THEN [resp |-> ZeroEvent, err |-> "Status code not set on response"]
    ELSE [resp |-> OutboundEvent(w.status, w.headers, w.body), err |-> ""]

(***************************************************************************)
(* The framework handler, f.app.Handler(): a deterministic stub application*)
(***************************************************************************)
ZeroResponse == [status |-> 200, header |-> <<>>, body |-> <<>>]
ZeroCtx == [inited |-> FALSE, Request |-> EmptyRequest, Response |-> ZeroResponse]

RECURSIVE Pairs(_, _)
Pairs(key, vals) ==
    IF vals = <<>> THEN <<>> ELSE <<<<key, Head(vals)>>>> \o Pairs(key, Tail(vals))

\* /echo  answers 200 with the request body, the request's content type, its
\*        X-Tag values and its method;
\* /empty answers 204 with no header and no body;
\* any other path answers 404.
AppHandler(req) ==
    LET ct == ValuesOf(req.header, "Content-Type")
    IN  CASE req.requestURI = "/echo" ->
               [status |-> 200,
                header |-> <<<<"Content-Type", IF ct = <<>> THEN "text/plain" ELSE Last(ct)>>>>
                           \o Pairs("X-Tag", ValuesOf(req.header, "X-Tag"))
                           \o <<<<"X-Method", req.method>>>>,
                body |-> req.body]
          [] req.requestURI = "/empty" ->
               [status |-> 204, header |-> <<>>, body |-> <<>>]
          [] OTHER ->
               [status |-> 404, header |-> <<<<"Content-Type", "text/plain">>>>,
                body |-> <<"Not Found">>]

(***************************************************************************)
(* adaptor: the statements that build the fasthttp request                 *)
(***************************************************************************)
\* req.Header.SetContentLength(n)
SetContentLength(req, n) ==
    [req EXCEPT !.header = HeaderSet(@, "Content-Length", ToString(n))]
\* req.BodyWriter().Write(body): appends to the body the request holds.
BodyWrite(req, body) == [req EXCEPT !.body = @ \o body]
\* req.Header.SetMethod(m)
SetMethod(req, m) == [req EXCEPT !.method = m]
\* req.SetRequestURI(uri)
SetRequestURI(req, uri) == [req EXCEPT !.requestURI = uri]
\* req.SetHost(host)
SetHost(req, host) == [req EXCEPT !.header = HeaderSet(@, "Host", host)]

\* Variant: the body is never written into the request.
PopulateRequestNoBody(req, r, body) ==
    SetHost(SetRequestURI(SetMethod(SetContentLength(req, Len(body)), r.Method),
                          r.RequestURI),
            r.Host)

\* Lines 80-85: what adaptor does between reading the body and the header loop.
PopulateRequest(req, r, body) ==
    SetHost(SetRequestURI(SetMethod(BodyWrite(SetContentLength(req, Len(body)), body),
                                    r.Method),
                          r.RequestURI),
            r.Host)

\* Variant: the switch is missing and every value is added.
CopyValueAlwaysAdd(h, key, v) == HeaderAdd(h, key, v)

\* The switch of the header loop: one value of one key.
CopyValue(h, key, v) ==
    IF key \in OverrideSet THEN HeaderSet(h, key, v) ELSE HeaderAdd(h, key, v)

\* The inner loop: every value of one key, in order.
RECURSIVE CopyValues(_, _, _)
CopyValues(h, key, vals) ==
    IF vals = <<>> THEN h
    ELSE CopyValues(CopyValue(h, key, Head(vals)), key, Tail(vals))

\* The keys the range over r.Header visits.
HeaderKeys(r) == {k \in HeaderNames : r.Header[k] # <<>>}

\* net.ResolveTCPAddr("tcp", addr) returns an error.
ResolveFails(addr) == addr \in BadAddrs

\* Variant: adaptor returns on the error without writing anything.
WriteNothing(w) == w

\* What adaptor writes when it gives up (lines 77 and 103).
WriteInternalError(w) == HttpError(w, StatusMessage500, StatusInternalServerError)

\* Variant: the request goes back to the pool as the call left it.
ResetKeep(req) == req

\* fasthttp.ReleaseRequest resets the request before it returns to the pool.
ResetRequest(req) == EmptyRequest

\* Variant: the conversion error is ignored.
ConversionFailedNever(err) == FALSE

\* The err checks of proxyInternal.
ConversionFailed(err) == err # ""
CaptureFailed(err) == err # ""

(***************************************************************************)
(* State                                                                   *)
(***************************************************************************)
ZeroLoc ==
    [httpReq |-> ZeroHTTPRequest, err |-> "", w |-> ZeroWriter, req |-> 0,
     body |-> <<>>, keys |-> {}, fctx |-> ZeroCtx, acq |-> <<>>, rel |-> <<>>]
ZeroOut == [resp |-> ZeroEvent, err |-> ""]
NoMemo == [set |-> FALSE, in |-> NoInput, out |-> ZeroOut]

InitWith(rt) ==
    /\ runtime = rt
    /\ pc = [c \in Calls |-> "idle"]
    /\ inp = [c \in Calls |-> NoInput]
    /\ loc = [c \in Calls |-> ZeroLoc]
    /\ out = [c \in Calls |-> ZeroOut]
    /\ log = [c \in Calls |-> <<>>]
    /\ pool = {}
    /\ created = {}
    /\ objs = [i \in ObjIds |-> EmptyRequest]
    /\ memo = NoMemo

Init == InitWith("single")
InitConcurrent == InitWith("concurrent")

Logged(c, entries) == log' = [log EXCEPT ![c] = @ \o entries]
Goto(c, label) == pc' = [pc EXCEPT ![c] = label]

(***************************************************************************)
(* Proxy and ProxyWithContext                                              *)
(***************************************************************************)
Start(c, in, conv) ==
    /\ pc[c] = "idle"
    /\ c \in ActiveCalls(runtime)
    /\ inp' = [inp EXCEPT ![c] = in]
    /\ loc' = [loc EXCEPT ![c].httpReq = conv.req, ![c].err = conv.err]
    /\ Logged(c, <<"convert">>)
    /\ Goto(c, "proxyInternal")
    /\ UNCHANGED <<runtime, out, pool, created, objs, memo>>

Proxy(c) ==
    /\ pc[c] = "idle"
    /\ c \in ActiveCalls(runtime)
    /\ \E in \in Inputs(runtime) :
        /\ in.api = "Proxy"
        /\ Start(c, in, ProxyEventToHTTPRequest(in.event))

\* Variant: the context is dropped, as in Proxy.
ProxyWithContextNoCtx(c) ==
    /\ pc[c] = "idle"
    /\ c \in ActiveCalls(runtime)
    /\ \E in \in Inputs(runtime) :
        /\ in.api = "ProxyWithContext"
        /\ Start(c, in, ProxyEventToHTTPRequest(in.event))

ProxyWithContext(c) ==
    /\ pc[c] = "idle"
    /\ c \in ActiveCalls(runtime)
    /\ \E in \in Inputs(runtime) :
        /\ in.api = "ProxyWithContext"
        /\ Start(c, in, EventToRequestWithContext(in.ctxDone, in.event))

(***************************************************************************)
(* proxyInternal                                                           *)
(***************************************************************************)
\* Lines 54-58: the conversion error check, then the new response writer.
ProxyInternal(c) ==
    /\ pc[c] = "proxyInternal"
    /\ IF ConversionFailed(loc[c].err)
       THEN /\ out' = [out EXCEPT ![c] = [resp |-> GatewayTimeoutALB,
                                          err |-> "Could not convert proxy event to request"]]
            /\ Logged(c, <<"gatewayTimeout">>)
            /\ Goto(c, "done")
            /\ UNCHANGED loc
       ELSE /\ loc' = [loc EXCEPT ![c].w = NewProxyResponseWriterALB]
            /\ Logged(c, <<"newWriter">>)
            /\ Goto(c, "acquire")
            /\ UNCHANGED out
    /\ UNCHANGED <<runtime, inp, pool, created, objs, memo>>

\* Lines 61-66: the structured event of the capture, or the fallback.
ProxyResponse(c) ==
    /\ pc[c] = "getResponse"
    /\ LET got == GetProxyResponse(loc[c].w)
       IN  IF CaptureFailed(got.err)
           THEN /\ out' = [out EXCEPT ![c] = [resp |-> GatewayTimeoutALB,
                                              err |-> "Error while generating proxy response"]]
                /\ Logged(c, <<"getResponse", "gatewayTimeout">>)
           ELSE /\ out' = [out EXCEPT ![c] = [resp |-> got.resp, err |-> ""]]
                /\ Logged(c, <<"getResponse">>)
    /\ Goto(c, "done")
    /\ UNCHANGED <<runtime, inp, loc, pool, created, objs, memo>>

\* The call returns to the hosting runtime, which may remember what it got.
Return(c) ==
    /\ pc[c] = "done"
    /\ memo' \in IF runtime = "single" THEN {memo}
                 ELSE {memo, [set |-> TRUE, in |-> inp[c], out |-> out[c]]}
    /\ Goto(c, "idle")
    /\ inp' = [inp EXCEPT ![c] = NoInput]
    /\ loc' = [loc EXCEPT ![c] = ZeroLoc]
    /\ out' = [out EXCEPT ![c] = ZeroOut]
    /\ log' = [log EXCEPT ![c] = <<>>]
    /\ UNCHANGED <<runtime, pool, created, objs>>

(***************************************************************************)
(* adaptor                                                                 *)
(***************************************************************************)
\* Line 71: fasthttp.AcquireRequest takes a pooled request, or makes one.
AcquireRequest(c) ==
    /\ pc[c] = "acquire"
    /\ \E i \in ObjIds :
        /\ \/ i \in pool
           \/ /\ i \notin created
              /\ \A j \in ObjIds \ created : i <= j
        /\ pool' = pool \ {i}
        /\ created' = created \cup {i}
        /\ loc' = [loc EXCEPT ![c].req = i, ![c].acq = Append(@, i)]
    /\ Logged(c, <<"acquire">>)
    /\ Goto(c, "readBody")
    /\ UNCHANGED <<runtime, inp, out, objs, memo>>

\* Variant: the release is not deferred, so the early return skips it.
ReadBodyLeak(c) ==
    /\ pc[c] = "readBody"
    /\ LET r == loc[c].httpReq
       IN  IF r.BodyFails
           THEN /\ loc' = [loc EXCEPT ![c].w = HttpError(@, StatusMessage500,
                                                         StatusInternalServerError)]
                /\ Logged(c, <<"readBody", "httpError">>)
                /\ Goto(c, "getResponse")
                /\ UNCHANGED objs
           ELSE /\ objs' = [objs EXCEPT ![loc[c].req] = PopulateRequest(@, r, r.Body)]
                /\ loc' = [loc EXCEPT ![c].body = r.Body, ![c].keys = HeaderKeys(r)]
                /\ Logged(c, <<"readBody", "setContentLength", "bodyWrite",
                               "setMethod", "setRequestURI", "setHost">>)
                /\ Goto(c, "headers")
    /\ UNCHANGED <<runtime, inp, out, pool, created, memo>>

\* Lines 75-85: read the body; on an error write the 500 and return, else fill
\* in the request.
ReadBody(c) ==
    /\ pc[c] = "readBody"
    /\ LET r == loc[c].httpReq
       IN  IF r.BodyFails
           THEN /\ loc' = [loc EXCEPT ![c].w = WriteInternalError(@)]
                /\ Logged(c, <<"readBody", "httpError">>)
                /\ Goto(c, "release")
                /\ UNCHANGED objs
           ELSE /\ objs' = [objs EXCEPT ![loc[c].req] = PopulateRequest(@, r, r.Body)]
                /\ loc' = [loc EXCEPT ![c].body = r.Body, ![c].keys = HeaderKeys(r)]
                /\ Logged(c, <<"readBody", "setContentLength", "bodyWrite",
                               "setMethod", "setRequestURI", "setHost">>)
                /\ Goto(c, "headers")
    /\ UNCHANGED <<runtime, inp, out, pool, created, memo>>

\* Lines 86-99: one key of the range over r.Header, in the map's own order.
CopyHeader(c) ==
    /\ pc[c] = "headers"
    /\ \E key \in loc[c].keys :
        /\ objs' = [objs EXCEPT ![loc[c].req].header =
                        CopyValues(@, key, loc[c].httpReq.Header[key])]
        /\ loc' = [loc EXCEPT ![c].keys = @ \ {key}]
    /\ Logged(c, <<"header">>)
    /\ UNCHANGED <<runtime, pc, inp, out, pool, created, memo>>

\* Lines 101-109: resolve the remote address; on an error write the 500 and
\* return, else initialise the RequestCtx from the request.
ResolveAddr(c) ==
    /\ pc[c] = "headers"
    /\ loc[c].keys = {}
    /\ IF ResolveFails(loc[c].httpReq.RemoteAddr)
       THEN /\ loc' = [loc EXCEPT ![c].w = WriteInternalError(@)]
            /\ Logged(c, <<"resolve", "httpError">>)
            /\ Goto(c, "release")
       ELSE /\ loc' = [loc EXCEPT ![c].fctx = [inited |-> TRUE,
                                               Request |-> objs[loc[c].req],
                                               Response |-> ZeroResponse]]
            /\ Logged(c, <<"resolve", "init">>)
            /\ Goto(c, "handler")
    /\ UNCHANGED <<runtime, inp, out, pool, created, objs, memo>>

\* Variant: the handler is run a second time.
HandlerTwice(c) ==
    /\ pc[c] = "handler"
    /\ loc' = [loc EXCEPT ![c].fctx.Response = AppHandler(loc[c].fctx.Request)]
    /\ Logged(c, <<"handler">>)
    /\ Goto(c, IF Has(log[c], "handler") THEN "writeHeaders" ELSE "handler")
    /\ UNCHANGED <<runtime, inp, out, pool, created, objs, memo>>

\* Line 112: the framework handler runs on the RequestCtx.
Handler(c) ==
    /\ pc[c] = "handler"
    /\ loc' = [loc EXCEPT ![c].fctx.Response = AppHandler(loc[c].fctx.Request)]
    /\ Logged(c, <<"handler">>)
    /\ Goto(c, "writeHeaders")
    /\ UNCHANGED <<runtime, inp, out, pool, created, objs, memo>>

RECURSIVE AddAll(_, _)
AddAll(w, pairs) ==
    IF pairs = <<>> THEN w
    ELSE AddAll(WriterHeaderAdd(w, Head(pairs)[1], Head(pairs)[2]), Tail(pairs))

\* Lines 115-117: every response header is added to the capture.
WriteHeaders(c) ==
    /\ pc[c] = "writeHeaders"
    /\ loc' = [loc EXCEPT ![c].w = AddAll(@, loc[c].fctx.Response.header)]
    /\ Logged(c, <<"wHeaders">>)
    /\ Goto(c, "writeStatus")
    /\ UNCHANGED <<runtime, inp, out, pool, created, objs, memo>>

\* Line 120
WriteStatus(c) ==
    /\ pc[c] = "writeStatus"
    /\ loc' = [loc EXCEPT ![c].w = WriteHeader(@, loc[c].fctx.Response.status)]
    /\ Logged(c, <<"wStatus">>)
    /\ Goto(c, "writeBody")
    /\ UNCHANGED <<runtime, inp, out, pool, created, objs, memo>>

\* Variant: the response body is never written to the capture.
WriteBodySkipped(c) ==
    /\ pc[c] = "writeBody"
    /\ Logged(c, <<"wBody">>)
    /\ Goto(c, "release")
    /\ UNCHANGED <<runtime, inp, loc, out, pool, created, objs, memo>>

\* Line 123
WriteBody(c) ==
    /\ pc[c] = "writeBody"
    /\ loc' = [loc EXCEPT ![c].w = Write(@, loc[c].fctx.Response.body)]
    /\ Logged(c, <<"wBody">>)
    /\ Goto(c, "release")
    /\ UNCHANGED <<runtime, inp, out, pool, created, objs, memo>>

\* Line 72: the deferred fasthttp.ReleaseRequest, run as adaptor returns.
ReleaseRequest(c) ==
    /\ pc[c] = "release"
    /\ objs' = [objs EXCEPT ![loc[c].req] = ResetRequest(@)]
    /\ pool' = pool \cup {loc[c].req}
    /\ loc' = [loc EXCEPT ![c].req = 0, ![c].rel = Append(@, loc[c].req)]
    /\ Logged(c, <<"release">>)
    /\ Goto(c, "getResponse")
    /\ UNCHANGED <<runtime, inp, out, created, memo>>

(***************************************************************************)
(* Specifications                                                          *)
(***************************************************************************)
Next ==
    \E c \in Calls :
        \/ Proxy(c)
        \/ ProxyWithContext(c)
        \/ ProxyInternal(c)
        \/ AcquireRequest(c)
        \/ ReadBody(c)
        \/ CopyHeader(c)
        \/ ResolveAddr(c)
        \/ Handler(c)
        \/ WriteHeaders(c)
        \/ WriteStatus(c)
        \/ WriteBody(c)
        \/ ReleaseRequest(c)
        \/ ProxyResponse(c)
        \/ Return(c)

\* One invocation at a time, over the wide set of events.
Spec == Init /\ [][Next]_vars
\* Concurrent invocations on one adapter.
SpecConcurrent == InitConcurrent /\ [][Next]_vars

(***************************************************************************)
(* Properties                                                              *)
(***************************************************************************)
HttpReq(c) == loc[c].httpReq
\* Conversion succeeded, the body can be read and the remote address resolves.
OnSuccessPath(c) ==
    /\ loc[c].err = ""
    /\ ~HttpReq(c).BodyFails
    /\ ~ResolveFails(HttpReq(c).RemoteAddr)
\* The header pairs of a response, by name.
Grouped(pairs) == [k \in RespNames |-> ValuesOf(pairs, k)]

\* C1: when event-to-request conversion fails, Proxy returns exactly the fixed
\* gateway-timeout event and a non-nil error; the handler is never invoked, no
\* pooled request is acquired and no response capture is made or written.
C1_ConversionFailure ==
    \A c \in Calls :
        (loc[c].err # "" /\ pc[c] \notin {"idle", "proxyInternal"}) =>
            /\ pc[c] = "done"
            /\ out[c].resp = GatewayTimeoutALB
            /\ out[c].err # ""
            /\ log[c] = <<"convert", "gatewayTimeout">>
            /\ loc[c].acq = <<>>
            /\ loc[c].req = 0
            /\ loc[c].w = ZeroWriter
            /\ ~loc[c].fctx.inited

C1_Witness ==
    \E c \in Calls :
        /\ pc[c] = "done"
        /\ inp[c].api = "Proxy"
        /\ inp[c].event.Malformed
        /\ loc[c].err # ""
        /\ out[c].resp.StatusCode = StatusGatewayTimeout

\* The request adaptor has built: the pooled request once the header loop is
\* over, and the copy the RequestCtx was initialised from.
HeaderRule(req, r) ==
    /\ \A k \in OverrideSet :
        r.Header[k] # <<>> => ValuesOf(req.header, k) = <<Last(r.Header[k])>>
    /\ \A k \in HeaderNames \ OverrideSet :
        ValuesOf(req.header, k) = r.Header[k]

\* C2: in the low-level request, a header of the override set keeps only the
\* last value supplied for it (also over what SetContentLength and SetHost
\* set before); any other header keeps every supplied value, in order.
C2_HeaderOverride ==
    \A c \in Calls :
        /\ (pc[c] = "headers" /\ loc[c].keys = {}) =>
                HeaderRule(objs[loc[c].req], HttpReq(c))
        /\ loc[c].fctx.inited => HeaderRule(loc[c].fctx.Request, HttpReq(c))

C2_Witness ==
    \E c \in Calls :
        /\ loc[c].fctx.inited
        /\ HttpReq(c).Header["Content-Length"] = <<"v1", "v2">>
        /\ HttpReq(c).Header["X-Tag"] = <<"v2", "v1">>
        /\ ValuesOf(loc[c].fctx.Request.header, "Content-Length") = <<"v2">>
        /\ ValuesOf(loc[c].fctx.Request.header, "X-Tag") = <<"v2", "v1">>

\* C3: on the success path the returned event carries exactly the status
\* code, the header pairs and the body the handler left in the response, and
\* the error is nil; an echoing handler turns body "hello" into 200 "hello".
C3_SuccessCarriesResponse ==
    \A c \in Calls :
        (pc[c] = "done" /\ OnSuccessPath(c)) =>
            LET resp == loc[c].fctx.Response
            IN  /\ Has(log[c], "handler")
                /\ out[c].err = ""
                /\ out[c].resp = OutboundEvent(resp.status, Grouped(resp.header), resp.body)
                /\ (HttpReq(c).RequestURI = "/echo" /\ HttpReq(c).Body = Hello) =>
                        /\ out[c].resp.StatusCode = 200
                        /\ out[c].resp.Body = Hello

C3_Witness ==
    \E c \in Calls :
        /\ pc[c] = "done"
        /\ OnSuccessPath(c)
        /\ inp[c].event.Path = "/echo"
        /\ inp[c].event.Body = Hello
        /\ out[c].resp.StatusCode = 200
        /\ out[c].resp.Body = Hello
        /\ out[c].resp.Headers["X-Tag"] = <<"v1", "v2">>

\* C4: for a request with a non-empty body, the request the handler is invoked
\* with has the method, the request URI and the body bytes of the Generic
\* Request, and its Content-Length is the body length when no Content-Length
\* header was supplied.
C4_RequestPreserved ==
    \A c \in Calls :
        (loc[c].fctx.inited /\ HttpReq(c).Body # <<>>) =>
            LET req == loc[c].fctx.Request
            IN  /\ req.method = HttpReq(c).Method
                /\ req.requestURI = HttpReq(c).RequestURI
                /\ req.body = HttpReq(c).Body
                /\ HttpReq(c).Header["Content-Length"] = <<>> =>
                        ValuesOf(req.header, "Content-Length")
                            = <<ToString(Len(HttpReq(c).Body))>>

C4_Witness ==
    \E c \in Calls :
        /\ pc[c] = "writeHeaders"
        /\ HttpReq(c).Method = "GET"
        /\ HttpReq(c).Body = Hello
        /\ loc[c].fctx.Request.body = Hello
        /\ ValuesOf(loc[c].fctx.Request.header, "Content-Length") = <<"5">>

\* C5: when the remote address does not resolve, adaptor writes a 500 through
\* the capture and returns without invoking the handler; Proxy returns the
\* event extracted from the capture, status 500, with a nil error, and not the
\* gateway-timeout event.
C5_ResolveFailure ==
    \A c \in Calls :
        (pc[c] = "done" /\ loc[c].err = "" /\ ~HttpReq(c).BodyFails
            /\ ResolveFails(HttpReq(c).RemoteAddr)) =>
            /\ ~Has(log[c], "handler")
            /\ ~loc[c].fctx.inited
            /\ out[c].err = ""
            /\ out[c].resp.StatusCode = StatusInternalServerError
            /\ out[c].resp.Body = <<StatusMessage500, "\n">>
            /\ out[c].resp = OutboundEvent(loc[c].w.status, loc[c].w.headers, loc[c].w.body)
            /\ out[c].resp # GatewayTimeoutALB

C5_Witness ==
    \E c \in Calls :
        /\ pc[c] = "done"
        /\ loc[c].err = ""
        /\ HttpReq(c).RemoteAddr = "not an address"
        /\ log[c][Len(log[c]) - 2] = "httpError"
        /\ out[c].resp.StatusCode = StatusInternalServerError

C7_AcquireRelease ==
    \A c \in Calls :
        /\ pc[c] \in {"idle", "proxyInternal", "acquire"} =>
                /\ loc[c].acq = <<>>
                /\ loc[c].rel = <<>>
                /\ loc[c].req = 0
        /\ pc[c] \in {"readBody", "headers", "handler", "writeHeaders",
                      "writeStatus", "writeBody", "release"} =>
                /\ loc[c].acq = <<loc[c].req>>
                /\ loc[c].rel = <<>>
                /\ loc[c].req \in created \ pool
        /\ pc[c] = "getResponse" =>
                /\ Len(loc[c].acq) = 1
                /\ loc[c].rel = loc[c].acq
                /\ loc[c].req = 0
        /\ pc[c] = "done" =>
                /\ loc[c].req = 0
                /\ loc[c].rel = loc[c].acq
                /\ Len(loc[c].acq) = IF Has(log[c], "newWriter") THEN 1 ELSE 0
                /\ Count(log[c], "acquire") = Len(loc[c].acq)
                /\ Count(log[c], "release") = Len(loc[c].rel)
        /\ (Has(log[c], "init") /\ Has(log[c], "release")) =>
                First(log[c], "init") < First(log[c], "release")

C7_Witness ==
    \E c \in Calls :
        /\ pc[c] = "done"
        /\ HttpReq(c).BodyFails
        /\ Has(log[c], "httpError")
        /\ Len(loc[c].acq) = 1
        /\ loc[c].rel = loc[c].acq

\* C8: calls share no state: two calls never hold the same pooled request, a
\* request a call acquires carries nothing of an earlier call, and the result
\* of a call depends only on its own input, so that the same input gives the
\* same result in concurrent and in repeated calls.  (The response capture is
\* a value of the call that makes it.)
C8_NoCrossCallState ==
    /\ \A c, d \in Calls :
        (c # d /\ loc[c].req # 0) => loc[c].req # loc[d].req
    /\ \A c \in Calls :
        /\ loc[c].req # 0 => loc[c].req \notin pool
        /\ pc[c] = "readBody" => objs[loc[c].req] = EmptyRequest
        /\ (pc[c] = "done" /\ memo.set /\ memo.in = inp[c]) => out[c] = memo.out
    /\ \A c, d \in Calls :
        (pc[c] = "done" /\ pc[d] = "done" /\ inp[c] = inp[d]) => out[c] = out[d]

C8_Witness ==
    \E c, d \in Calls :
        /\ c # d
        /\ pc[c] = "done"
        /\ memo.set
        /\ memo.in = inp[c]
        /\ out[c].resp.Body = Hello
        /\ pc[d] = "handler"
        /\ inp[d] # inp[c]
        /\ loc[c].acq # loc[d].acq

Rank(label) ==
    CASE label = "convert" -> 1
      [] label = "newWriter" -> 2
      [] label = "acquire" -> 3
      [] label = "readBody" -> 4
      [] label = "setContentLength" -> 5
      [] label = "bodyWrite" -> 6
      [] label = "setMethod" -> 7
      [] label = "setRequestURI" -> 8
      [] label = "setHost" -> 9
      [] label = "header" -> 10
      [] label = "resolve" -> 11
      [] label = "init" -> 12
      [] label = "handler" -> 13
      [] label = "wHeaders" -> 14
      [] label = "wStatus" -> 15
      [] label = "wBody" -> 16
      [] label = "httpError" -> 17
      [] label = "release" -> 18
      [] label = "getResponse" -> 19
      [] label = "gatewayTimeout" -> 20

\* Every step comes later in the call sequence than the step before it; only
\* the header loop repeats.
Linear(l) ==
    \A i \in 1 .. (Len(l) - 1) :
        \/ Rank(l[i]) < Rank(l[i + 1])
        \/ (l[i] = "header" /\ l[i + 1] = "header")

\* C10: a call is one linear sequence without retries: the handler is invoked
\* at most once, and only after the request is populated (body, method, URI,
\* host, every header key) and the remote address resolved; on the success
\* path the capture is written after the handler, headers, then the status
\* code exactly once, then the body; after a failure no step runs again.
C10_LinearSequence ==
    \A c \in Calls :
        /\ Linear(log[c])
        /\ Count(log[c], "handler") <= 1
        /\ Has(log[c], "handler") =>
                /\ \A l \in {"readBody", "setContentLength", "bodyWrite", "setMethod",
                             "setRequestURI", "setHost", "resolve", "init"} :
                        Count(log[c], l) = 1
                /\ Count(log[c], "header") = Cardinality(HeaderKeys(HttpReq(c)))
                /\ ~Has(log[c], "httpError")
        /\ \A l \in {"wHeaders", "wStatus", "wBody"} :
                /\ Count(log[c], l) <= 1
                /\ Has(log[c], l) => Has(log[c], "handler")
        /\ (Has(log[c], "release") /\ Has(log[c], "handler")) =>
                \A l \in {"wHeaders", "wStatus", "wBody"} : Count(log[c], l) = 1
        /\ (Has(log[c], "httpError") \/ Has(log[c], "gatewayTimeout")) =>
                /\ Count(log[c], "httpError") + Count(log[c], "gatewayTimeout") = 1
                /\ \A l \in {"convert", "newWriter", "acquire", "readBody", "resolve"} :
                        Count(log[c], l) <= 1
        /\ pc[c] = "done" => Last(log[c]) \in {"getResponse", "gatewayTimeout"}

C10_Witness ==
    \E c \in Calls :
        /\ pc[c] = "done"
        /\ Count(log[c], "header") = 2
        /\ Has(log[c], "handler")
        /\ Count(log[c], "wStatus") = 1
        /\ First(log[c], "handler") < First(log[c], "wHeaders")
====
